---- MODULE Spec2Model ----
(***************************************************************************)
(* Multi-layer SRM spiking networks of snncls: the iterative simulate and  *)
(* the fixed-step simulate_steps of MultilayerSRM (plain) and of           *)
(* MultilayerSRMSub (delayed subconnections), and the weight assignment of *)
(* the subconnection network.                                              *)
(*                                                                         *)
(* Arrays are functions over 0 .. n-1, as numpy indexes them.  Real values *)
(* are integers in units of 1/Unit: the membrane decay exp(-dt/tau_m) is   *)
(* taken as 1/2 and the synaptic decay exp(-dt/tau_s) as 1/4 per step, so  *)
(* that every kernel value of a pattern is an exact integer.               *)
(***************************************************************************)
EXTENDS Integers, Sequences, FiniteSets, TLC

VARIABLES
    sizes,      \* self.sizes: neurons per layer, input first
    stimulus,   \* the caller's stimulus array, shape (num_inputs, steps)
    seed,       \* seed of the generators of both networks
    kappa_0,    \* cell_params['kappa_0'], reset strength
    net,        \* net[k]: the k-th network object (k = 1, 2)
    rng,        \* rng[g]: samples drawn so far from generator g
    call,       \* the locals of the call in flight
    ret         \* ret[k]: what the call on network k returned or raised

vars == <<sizes, stimulus, seed, kappa_0, net, rng, call, ret>>

---------------------------------------------------------------------------
(* Bounds of the model *)

\* len(self.lut['psp']): steps of the pattern duration
LutLen == 3
\* largest conduction delay in steps
MaxDelay == 3

---------------------------------------------------------------------------
(* Arithmetic helpers *)

Idx(n) == 0 .. (n - 1)

Max2(a, b) == IF a >= b THEN a ELSE b

Min2(a, b) == IF a <= b THEN a ELSE b

RECURSIVE Pow(_, _)
Pow(b, e) == IF e = 0 THEN 1 ELSE b * Pow(b, e - 1)

RECURSIVE SumTo(_, _)
\* f[0] + ... + f[n-1]
SumTo(f, n) == IF n = 0 THEN 0 ELSE f[n - 1] + SumTo(f, n - 1)

\* a Python slice bound x on a sequence of length n (negative counts from
\* the end, everything is clipped to 0 .. n)
PyNorm(x, n) == IF x < 0 THEN Max2(x + n, 0) ELSE Min2(x, n)

\* -delay as Python evaluates it: -0 is 0
Neg(x) == 0 - x

\* numpy accepts  target[lo:] (op)= source  when the lengths agree or the
\* source has length 1 (broadcast)
Fits(target_len, source_len) == source_len = target_len \/ source_len = 1

---------------------------------------------------------------------------
(* Cell parameters and lookup tables *)

\* one unit of potential
Unit == Pow(4, LutLen + 1)

\* the generator's stream repeats after this many samples: never the
\* length of a row of a batch
SeedDigits == LutLen + 1

\* time resolution self.dt, in steps
dt == 1

\* firing threshold cell_params['theta']
theta == Unit

\* cell_params['psp_coeff']
psp_coeff == 4 * Unit

\* below this potential the escape rate underflows to 0
rate_floor == 0 - Unit

\* self.decay_m, self.decay_s applied to a value
decay_m(x) == x \div 2

decay_s(x) == x \div 4

\* self.lut['psp'][k] = psp_coeff * (exp(-k dt/tau_m) - exp(-k dt/tau_s))
lut_psp == [k \in Idx(LutLen) |->
               (psp_coeff \div Pow(2, k)) - (psp_coeff \div Pow(4, k))]

\* self.lut['refr'][k] = kappa_0 * exp(-k dt/tau_m)
lut_refr(kappa) == [k \in Idx(LutLen) |-> (kappa * Unit) \div Pow(2, k)]

\* neuron_h.activation(u) * dt in sample units: the exponential escape rate
\* is positive and non-decreasing, and underflows to 0 far below threshold
RateDt(u) == IF u < rate_floor THEN 0 ELSE IF u < theta THEN 1 ELSE 2

\* values a uniform sample takes
SampleVals == {0, 1}

\* the pos-th sample of the generator seeded with s
UniformAt(s, pos) ==
    (s \div Pow(Cardinality(SampleVals), pos % SeedDigits))
        % Cardinality(SampleVals)

Seeds == Idx(Pow(Cardinality(SampleVals), SeedDigits))

\* self.rng.uniform(size=(n, T)) from generator position pos: filled in
\* C order, row after row
UniformBatch(s, pos, n, T) ==
    [i \in Idx(n) |-> [t \in Idx(T) |-> UniformAt(s, pos + i * T + t)]]

---------------------------------------------------------------------------
(* Construction: sizes, weights, delays *)

\* a tuple as an array indexed from 0
Arr(seq) == [i \in Idx(Len(seq)) |-> seq[i + 1]]

\* number of entries of an array indexed from 0
Size(a) == Cardinality(DOMAIN a)

\* layer sizes the networks are built with
NetSizes == {Arr(<<1, 2, 1>>), Arr(<<1, 1, 1, 1>>)}

\* values of a weight given to the constructor
WVals == {0, 2}

\* values of cell_params['kappa_0']
Kappa0Vals == {0 - 2, 1}

\* weight matrices of shape (num_post, num_pre)
LayerW(num_post, num_pre) == [Idx(num_post) -> [Idx(num_pre) -> WVals]]

RECURSIVE WeightLists(_, _)
\* the lists of the first n weight matrices of a network of sizes sz
WeightLists(sz, n) ==
    IF n = 0 THEN {<<>>}
    ELSE {Append(ws, m) : ws \in WeightLists(sz, n - 1),
                          m \in LayerW(sz[n], sz[n - 1])}

\* the weights argument of the constructors
WeightArgs(sz) == {Arr(ws) : ws \in WeightLists(sz, Size(sz) - 1)}

\* rows of input PSPs over LutLen steps: input that sets in at a step and
\* stays, and input at one step only
StimulusRows ==
    {[t \in Idx(LutLen) |-> IF t >= t0 THEN Unit ELSE 0] : t0 \in 0 .. LutLen}
    \cup {[t \in Idx(LutLen) |-> IF t = t0 THEN Unit ELSE 0] : t0 \in Idx(LutLen)}

\* stimuli given as arrays of PSPs, shape (num_inputs, steps): LutLen
\* steps, and constant stimuli of each neighbouring length
Stimuli(num_inputs) ==
    [Idx(num_inputs) -> StimulusRows]
    \cup {[j \in Idx(num_inputs) |-> [t \in Idx(n) |-> Unit]] :
              n \in {LutLen - 1, LutLen + 1}}

\* times2steps(t): a time as a number of steps, rounded
times2steps(t) == (2 * t + dt) \div (2 * dt)

\* np.linspace(low, high, num=num) for num = 1 or 2: the first point alone,
\* or the two ends
LinSpace(low, high, num) ==
    [s \in Idx(num) |-> IF num = 1 THEN low ELSE low + s * (high - low)]

\* numbers of subconnections the networks are built with
SubCounts == 1 .. 2

\* self.delays[l] under delay_distr = 'lin' and max_delay = MaxDelay, one
\* delay in steps per subconnection
LinDelaysOf(num) ==
    [s \in Idx(num) |-> times2steps(LinSpace(1, MaxDelay, num)[s])]

LinDelays == {LinDelaysOf(num) : num \in SubCounts}

\* under delay_distr = 'unif' the delays are drawn, in any order
UnifDelays == LinDelays \cup {Arr(<<2, 1>>)}

\* MultilayerSRM(sizes, param, weights): the plain network
PlainNet(sz, W) ==
    [cls |-> "plain", num_subs |-> <<>>, delays |-> <<>>,
     has_clamp_mask |-> FALSE, clamp_mask |-> <<>>, w |-> W]

\* a weight tensor of shape (num_post, num_pre, num_subs) carrying the
\* matrix m on each subconnection
Spread(m, n) == [i \in DOMAIN m |-> [j \in DOMAIN m[i] |-> [k \in Idx(n) |-> m[i][j]]]]

\* MultilayerSRMSub(sizes, param, weights, num_subs): scalar num_subs, no
\* conns_fr, delays D on every layer
SubNet(sz, W, D) ==
    [cls |-> "sub",
     num_subs |-> [l \in Idx(Size(sz) - 1) |-> Size(D)],
     delays |-> [l \in Idx(Size(sz) - 1) |-> D],
     has_clamp_mask |-> FALSE, clamp_mask |-> <<>>,
     w |-> [l \in DOMAIN W |-> Spread(W[l], Size(D))]]

\* the two networks, built from the same sizes, weights and seed: two of
\* the same class, or the plain network and the subconnection network
\* with a single subconnection whose delay is set to 0 steps
SimPairs(sz, W) ==
    {<<PlainNet(sz, W), PlainNet(sz, W)>>,
     <<PlainNet(sz, W), SubNet(sz, W, Arr(<<0>>))>>}
    \cup {<<SubNet(sz, W, D), SubNet(sz, W, D)>> : D \in LinDelays}

StepsPairs(sz, W) ==
    {<<PlainNet(sz, W), PlainNet(sz, W)>>}
    \cup {<<SubNet(sz, W, D), SubNet(sz, W, D)>> : D \in UnifDelays}

BothPairs(sz, W) ==
    {<<PlainNet(sz, W), PlainNet(sz, W)>>,
     <<SubNet(sz, W, LinDelaysOf(2)), SubNet(sz, W, LinDelaysOf(2))>>}

num_layers == Size(sizes)

Idle == [pc |-> "idle"]

NoReturn == [status |-> "none", engine |-> "none", latency |-> FALSE]

\* the state after the two networks are constructed
InitOf(engines) ==
    /\ sizes \in NetSizes
    /\ stimulus \in Stimuli(sizes[0])
    /\ seed \in Seeds
    /\ kappa_0 \in Kappa0Vals
    /\ \E W \in WeightArgs(sizes) :
           net \in IF engines = "simulate" THEN SimPairs(sizes, W)
                   ELSE IF engines = "simulate_steps" THEN StepsPairs(sizes, W)
                   ELSE BothPairs(sizes, W)
    /\ rng = [g \in 1 .. 2 |-> 0]
    /\ call = Idle
    /\ ret = [k \in 1 .. 2 |-> NoReturn]

Init == InitOf("simulate")

InitSteps == InitOf("simulate_steps")

InitBoth == InitOf("both")

---------------------------------------------------------------------------
(* Array operations of the engines *)

\* stimulus_as_psps(stimulus) for a stimulus given as an array of PSPs
stimulus_as_psps(stim) == stim

\* np.zeros(n)
Zeros(n) == [t \in Idx(n) |-> 0]

\* np.dot(w[l], psps): shape (num_post, num_pre) x (num_pre, T)
Dot(wl, psps, T) ==
    [i \in DOMAIN wl |-> [t \in Idx(T) |->
        SumTo([j \in DOMAIN psps |-> wl[i][j] * psps[j][t]], Size(psps))]]

\* np.tensordot(w[l], psps): shape (num_post, num_pre, num_subs) x
\* (num_pre, num_subs, T), summed over the two shared axes
TensorDot(wl, psps, T) ==
    [i \in DOMAIN wl |-> [t \in Idx(T) |->
        SumTo([j \in DOMAIN psps |->
                  SumTo([k \in DOMAIN psps[j] |-> wl[i][j][k] * psps[j][k][t]],
                        Size(psps[j]))],
              Size(psps))]]

RECURSIVE WhereTo(_, _)
\* np.where(cond)[0] over the first n entries: the indices where cond
\* holds, in increasing order
WhereTo(cond, n) ==
    IF n = 0 THEN <<>>
    ELSE IF cond[n - 1] THEN Append(WhereTo(cond, n - 1), n - 1)
         ELSE WhereTo(cond, n - 1)

\* np.where(unif_samples[i] <= rates * dt)[0]
HiddenCandidatesInclusive(samples, potential) ==
    WhereTo([t \in DOMAIN potential |-> samples[t] <= RateDt(potential[t])],
            Size(potential))

\* thr_idxs of a hidden neuron: np.where(unif_samples[i] < rates * dt)[0]
HiddenCandidates(samples, potential) ==
    WhereTo([t \in DOMAIN potential |-> samples[t] < RateDt(potential[t])],
            Size(potential))

\* thr_idxs of an output neuron: np.where(potentials[i] > theta)[0]
OutputCandidates(potential) ==
    WhereTo([t \in DOMAIN potential |-> potential[t] > theta], Size(potential))

\* row[start:] += kernel[:stop].  ok is whether numpy accepts the shapes;
\* lo, hi and klen are the slice written and the kernel length used
AddFrom(row, start, kernel, stop) ==
    LET n == Size(row)
        lo == PyNorm(start, n)
        klen == PyNorm(stop, Size(kernel))
        ok == Fits(n - lo, klen)
    IN [ok |-> ok,
        row |-> IF ok
                THEN [t \in DOMAIN row |->
                         IF t >= lo
                         THEN row[t] + kernel[IF klen = 1 THEN 0 ELSE t - lo]
                         ELSE row[t]]
                ELSE row,
        lo |-> lo, hi |-> n, klen |-> klen]

\* psps[:, i, delay:] = psp_inputs[:, :-delay] for one subconnection i
ShiftOk(delay, T) == Fits(T - PyNorm(delay, T), PyNorm(Neg(delay), T))

\* the row copied without a shift
ShiftRowNot(row, delay, T) == [t \in Idx(T) |-> row[t]]

ShiftRow(row, delay, T) ==
    LET lo == PyNorm(delay, T)
        src_len == PyNorm(Neg(delay), T)
    IN [t \in Idx(T) |->
           IF t >= lo THEN row[IF src_len = 1 THEN 0 ELSE t - lo] ELSE 0]

\* the expanded input PSPs, shape (num_inputs, num_subs[0], num_iter)
ShiftInputs(psp_inputs, delays0, T) ==
    [j \in DOMAIN psp_inputs |-> [i \in DOMAIN delays0 |->
        ShiftRow(psp_inputs[j], delays0[i], T)]]

\* the kernel prefix lut['psp'][:iters] added at the delayed onset
SubPspAddsFullKernel(trace, fire_idx, delays, T) ==
    [j \in DOMAIN delays |->
        IF fire_idx + delays[j] < T
        THEN AddFrom(trace[j], fire_idx + delays[j], lut_psp, T - fire_idx)
        ELSE [ok |-> TRUE, row |-> trace[j], lo |-> T, hi |-> T, klen |-> 0]]

\* the PSP kernel of a spike at fire_idx added to the outgoing trace of a
\* hidden neuron of the subconnection network: one addition per
\* subconnection whose delayed onset is inside the pattern
SubPspAdds(trace, fire_idx, delays, T) ==
    [j \in DOMAIN delays |->
        IF fire_idx + delays[j] < T
        THEN AddFrom(trace[j], fire_idx + delays[j], lut_psp,
                     (T - fire_idx) - delays[j])
        ELSE [ok |-> TRUE, row |-> trace[j], lo |-> T, hi |-> T, klen |-> 0]]

---------------------------------------------------------------------------
(* The iterative engine: MultilayerSRM.simulate, MultilayerSRMSub.simulate *)

\* one generator shared by the networks
GeneratorShared(k) == 1

\* self.rng of network k: each network draws from its own generator
Generator(k) == k

\* the call on network k ends with an exception
Raise(k, engine, latency, exc) ==
    /\ ret' = [ret EXCEPT ![k] = [status |-> "raised", engine |-> engine,
                                  latency |-> latency, exc |-> exc]]
    /\ call' = Idle

\* the networks are called one after the other, each once, with the same
\* method; networks without a hidden layer with either method
MayCall(k, engine) ==
    /\ call.pc = "idle"
    /\ ret[k].status = "none"
    /\ k = 1 \/ (/\ ret[1].status # "none"
                 /\ ret[1].engine = engine \/ num_layers = 2)

\* the entries of a record list made by np.empty before they are assigned
EmptyList(n) == [l \in Idx(n) |-> "empty"]

\* assert num_iter <= len(self.lut['psp'])
LengthOkAtMost(num_iter) == num_iter <= LutLen

\* assert num_iter == len(self.lut['psp'])
LengthOk(num_iter) == num_iter = LutLen

\* the keys of rec = {} after the two conditional assignments
RecKeys(return_psps, debug) ==
    (IF return_psps THEN {"psp"} ELSE {}) \cup (IF debug THEN {"u"} ELSE {})

\* simulate(stimulus, latency, return_psps, debug) up to the first layer
simulate(k, latency, return_psps, debug) ==
    /\ MayCall(k, "simulate")
    /\ UNCHANGED <<sizes, stimulus, seed, kappa_0, net, rng>>
    /\ LET psp_inputs == stimulus_as_psps(stimulus)
           num_iter == Size(psp_inputs[0])
           isSub == net[k].cls = "sub"
           delays0 == net[k].delays[0]
           psps == IF isSub THEN ShiftInputs(psp_inputs, delays0, num_iter)
                   ELSE psp_inputs
       IN IF ~LengthOk(num_iter)
          THEN Raise(k, "simulate", latency, "AssertionError")
          ELSE IF isSub /\ \E i \in DOMAIN delays0 : ~ShiftOk(delays0[i], num_iter)
          THEN Raise(k, "simulate", latency, "ValueError")
          ELSE /\ ret' = ret
               /\ call' =
                    [pc |-> "layer", k |-> k, engine |-> "simulate",
                     latency |-> latency, return_psps |-> return_psps,
                     debug |-> debug, num_iter |-> num_iter,
                     l |-> 0, i |-> 0, num_spikes |-> 0,
                     counts |-> <<>>, done |-> <<>>,
                     psps_of |-> IF isSub THEN "local" ELSE "caller",
                     potentials |-> <<>>, unif_samples |-> <<>>,
                     psps |-> psps,
                     spike_trains_l |->
                         [l \in Idx(num_layers - 1) |->
                             [i \in Idx(sizes[l + 1]) |-> <<>>]],
                     rec |-> [keys |-> RecKeys(return_psps, debug),
                              psp |-> IF return_psps
                                      THEN [EmptyList(num_layers - 1)
                                                EXCEPT ![0] = psps]
                                      ELSE "unset",
                              u |-> IF debug THEN EmptyList(num_layers - 1)
                                    ELSE "unset"],
                     fire_idx |-> 0 - 1, adds |-> {}]

\* np.dot or np.tensordot of a layer's weights with the incoming PSPs
LayerPotentials(k, l) ==
    IF net[k].cls = "sub" THEN TensorDot(net[k].w[l], call.psps, call.num_iter)
    ELSE Dot(net[k].w[l], call.psps, call.num_iter)

\* the zeroed array of the PSPs evoked by the hidden layer l + 1
ZeroPsps(k, l) ==
    IF net[k].cls = "sub"
    THEN [i \in Idx(sizes[l + 1]) |->
             [j \in Idx(net[k].num_subs[l + 1]) |-> Zeros(call.num_iter)]]
    ELSE [i \in Idx(sizes[l + 1]) |-> Zeros(call.num_iter)]

\* the name psps left bound to the array it was bound to
ReboundNot(bound) == bound

\* psps = np.zeros(...): the name psps is bound to a new array of the call
Rebound(bound) == "local"

\* the array of the caller after psps[i, ...] += ... : written when the
\* name psps is bound to it (psps = psp_inputs, passed through unchanged)
WriteThrough(c) ==
    IF c.pc # "idle" /\ call.psps_of = "caller" THEN c.psps ELSE stimulus

\* one sample per neuron: size=len(potentials)
BatchCountPerNeuron(n, T) == n

\* samples drawn for a hidden layer of n neurons: np.shape(potentials)
BatchCount(n, T) == n * T

\* a hidden layer starts: its potentials, its batch of samples
hidden_layer ==
    /\ call.pc = "layer"
    /\ call.l < num_layers - 2
    /\ LET k == call.k
           l == call.l
           n == sizes[l + 1]
       IN /\ call' = [call EXCEPT
                         !.pc = "hidden", !.i = 0, !.num_spikes = 0,
                         !.counts = Zeros(n), !.done = <<>>,
                         !.psps_of = Rebound(@),
                         !.potentials = LayerPotentials(k, l),
                         !.unif_samples =
                             UniformBatch(seed, rng[Generator(k)], n,
                                          call.num_iter),
                         !.psps = ZeroPsps(k, l)]
          /\ rng' = [rng EXCEPT
                         ![Generator(k)] = @ + BatchCount(n, call.num_iter)]
    /\ UNCHANGED <<sizes, stimulus, seed, kappa_0, net, ret>>

\* the output layer starts
output_layer ==
    /\ call.pc = "layer"
    /\ call.l = num_layers - 2
    /\ LET k == call.k
       IN call' = [call EXCEPT
                      !.pc = "output", !.i = 0, !.num_spikes = 0,
                      !.counts = Zeros(sizes[num_layers - 1]), !.done = <<>>,
                      !.psps_of = IF net[k].cls = "sub" THEN @ ELSE Rebound(@),
                      !.potentials = LayerPotentials(k, call.l),
                      !.psps = IF net[k].cls = "sub" THEN @
                               ELSE [i \in Idx(sizes[num_layers - 1]) |->
                                        Zeros(call.num_iter)]]
    /\ UNCHANGED <<sizes, stimulus, seed, kappa_0, net, rng, ret>>

\* thr_idxs computed from the potentials of neuron 0 for every neuron
thr_idxs_row0 ==
    IF call.pc = "hidden"
    THEN HiddenCandidates(call.unif_samples[call.i], call.potentials[0])
    ELSE OutputCandidates(call.potentials[0])

\* thr_idxs of the neuron whose loop is running
thr_idxs ==
    IF call.pc = "hidden"
    THEN HiddenCandidates(call.unif_samples[call.i], call.potentials[call.i])
    ELSE OutputCandidates(call.potentials[call.i])

\* thr_idxs[0] taken whatever the number of accepted spikes
NextFireIdxFirst(idxs, num_spikes) == idxs[1]

\* the index taken from thr_idxs when num_spikes spikes are accepted
NextFireIdx(idxs, num_spikes) == idxs[num_spikes + 1]

\* the kernel additions of a spike at fire_idx, as the log keeps them
AddLog(kind, sub, onset, a) ==
    [kind |-> kind, sub |-> sub, onset |-> onset,
     lo |-> a.lo, hi |-> a.hi, klen |-> a.klen]

\* PSP kernel added to the outgoing trace of neuron i of the plain network
PlainPspAdd(trace, fire_idx, T) ==
    AddFrom(trace, fire_idx, lut_psp, T - fire_idx)

\* refractory kernel added to the potential of the neuron that fired
RefrAdd(potential, fire_idx, T) ==
    AddFrom(potential, fire_idx, lut_refr(kappa_0), T - fire_idx)

\* fire_idx * self.dt, the spike time appended to the train
SpikeTime(fire_idx) == fire_idx * dt

\* num_spikes left as it is
CountSpikeNot(num_spikes) == num_spikes

\* num_spikes += 1
CountSpike(num_spikes) == num_spikes + 1

\* a hidden neuron accepts its next spike
hidden_spike ==
    /\ call.pc = "hidden"
    /\ call.num_spikes < Len(thr_idxs)
    /\ LET k == call.k
           l == call.l
           i == call.i
           T == call.num_iter
           fire_idx == NextFireIdx(thr_idxs, call.num_spikes)
           refr == RefrAdd(call.potentials[i], fire_idx, T)
           isSub == net[k].cls = "sub"
           delays == net[k].delays[l + 1]
           subAdds == SubPspAdds(call.psps[i], fire_idx, delays, T)
           plainAdd == PlainPspAdd(call.psps[i], fire_idx, T)
           ok == /\ refr.ok
                 /\ IF isSub THEN \A j \in DOMAIN delays : subAdds[j].ok
                    ELSE plainAdd.ok
       IN IF ~ok
          THEN Raise(k, "simulate", call.latency, "ValueError")
          ELSE /\ ret' = ret
               /\ call' = [call EXCEPT
                    !.potentials[i] = refr.row,
                    !.psps[i] = IF isSub
                                THEN [j \in DOMAIN delays |-> subAdds[j].row]
                                ELSE plainAdd.row,
                    !.spike_trains_l[l][i] = Append(@, SpikeTime(fire_idx)),
                    !.num_spikes = CountSpike(@),
                    !.fire_idx = fire_idx,
                    !.adds =
                        {AddLog("refr", 0 - 1, fire_idx, refr)} \cup
                        (IF isSub
                         THEN {AddLog("psp", j, fire_idx + delays[j], subAdds[j]) :
                                   j \in DOMAIN delays}
                         ELSE {AddLog("psp", 0 - 1, fire_idx, plainAdd)})]
    /\ stimulus' = WriteThrough(call')
    /\ UNCHANGED <<sizes, seed, kappa_0, net, rng>>

\* a hidden neuron has no further candidate: next neuron, or the layer is
\* recorded and the next layer follows
hidden_break ==
    /\ call.pc = "hidden"
    /\ ~(call.num_spikes < Len(thr_idxs))
    /\ IF call.i + 1 < sizes[call.l + 1]
       THEN call' = [call EXCEPT !.i = @ + 1, !.num_spikes = 0]
       ELSE call' = [call EXCEPT
                        !.pc = "layer", !.l = @ + 1,
                        !.rec.psp = IF call.return_psps
                                    THEN [@ EXCEPT ![call.l + 1] = call.psps]
                                    ELSE @,
                        !.rec.u = IF call.debug
                                  THEN [@ EXCEPT ![call.l] = call.potentials]
                                  ELSE @]
    /\ UNCHANGED <<sizes, stimulus, seed, kappa_0, net, rng, ret>>

\* the loop of output neuron i is left: next neuron, or the layer is done
LeaveOutputLoop(c) ==
    IF c.i + 1 < sizes[num_layers - 1]
    THEN [c EXCEPT !.i = @ + 1, !.num_spikes = 0]
    ELSE [c EXCEPT !.pc = "return"]

\* the spike is counted and the loop goes on, latency or not
AfterOutputSpikeNoBreak(fired, latency) == [fired EXCEPT !.num_spikes = @ + 1]

\* after an output spike: under latency the loop of the neuron is left,
\* otherwise the spike is counted
AfterOutputSpike(fired, latency) ==
    IF latency THEN LeaveOutputLoop(fired)
    ELSE [fired EXCEPT !.num_spikes = CountSpike(@)]

\* an output neuron accepts its next spike
output_spike ==
    /\ call.pc = "output"
    /\ call.num_spikes < Len(thr_idxs)
    /\ LET k == call.k
           i == call.i
           T == call.num_iter
           fire_idx == NextFireIdx(thr_idxs, call.num_spikes)
           refr == RefrAdd(call.potentials[i], fire_idx, T)
           isSub == net[k].cls = "sub"
           plainAdd == PlainPspAdd(call.psps[i], fire_idx, T)
           ok == refr.ok /\ (isSub \/ plainAdd.ok)
           fired == [call EXCEPT
                    !.potentials[i] = refr.row,
                    !.psps[i] = IF isSub THEN @ ELSE plainAdd.row,
                    !.spike_trains_l[num_layers - 2][i] =
                        Append(@, SpikeTime(fire_idx)),
                    !.fire_idx = fire_idx,
                    !.adds =
                        {AddLog("refr", 0 - 1, fire_idx, refr)} \cup
                        (IF isSub THEN {}
                         ELSE {AddLog("psp", 0 - 1, fire_idx, plainAdd)})]
       IN IF ~ok
          THEN Raise(k, "simulate", call.latency, "ValueError")
          ELSE /\ ret' = ret
               /\ call' = AfterOutputSpike(fired, call.latency)
    /\ stimulus' = WriteThrough(call')
    /\ UNCHANGED <<sizes, seed, kappa_0, net, rng>>

\* an output neuron has no further candidate
output_break ==
    /\ call.pc = "output"
    /\ ~(call.num_spikes < Len(thr_idxs))
    /\ call' = LeaveOutputLoop(call)
    /\ UNCHANGED <<sizes, stimulus, seed, kappa_0, net, rng, ret>>

\* the neurons of the running layer whose loops have not been left
Unfinished(done) ==
    Idx(sizes[(IF call.pc = "hidden" THEN call.l ELSE num_layers - 2) + 1])
        \ {done[n] : n \in DOMAIN done}

\* the loops of a layer run in another order: the loop of neuron i is
\* put aside with its num_spikes and the loop of neuron j goes on
\* with its own
Resume(c, j) ==
    [c EXCEPT !.counts[c.i] = c.num_spikes, !.i = j,
              !.num_spikes = c.counts[j]]

\* the loop of another neuron of the layer is taken up before the running
\* one is left
switch_neuron ==
    /\ call.pc \in {"hidden", "output"}
    /\ \E j \in Unfinished(call.done) \ {call.i} : call' = Resume(call, j)
    /\ UNCHANGED <<sizes, stimulus, seed, kappa_0, net, rng, ret>>

\* the running loop has no further candidate and is left: the loop of any
\* unfinished neuron goes on, or the layer is done as in the sequential
\* order
any_break ==
    /\ call.pc \in {"hidden", "output"}
    /\ ~(call.num_spikes < Len(thr_idxs))
    /\ LET done == Append(call.done, call.i)
       IN IF Unfinished(done) # {}
          THEN \E j \in Unfinished(done) :
                   call' = Resume([call EXCEPT !.done = done], j)
          ELSE IF call.pc = "output"
          THEN call' = [call EXCEPT !.pc = "return", !.done = done]
          ELSE call' = [call EXCEPT
                           !.pc = "layer", !.l = @ + 1, !.done = done,
                           !.rec.psp = IF call.return_psps
                                       THEN [@ EXCEPT ![call.l + 1] = call.psps]
                                       ELSE @,
                           !.rec.u = IF call.debug
                                     THEN [@ EXCEPT ![call.l] = call.potentials]
                                     ELSE @]
    /\ UNCHANGED <<sizes, stimulus, seed, kappa_0, net, rng, ret>>

\* what simulate returns: the spike trains, with the record under debug,
\* with the PSP list under return_psps alone
SimulateResult(c) ==
    LET rec == [c.rec EXCEPT
                   !.u = IF c.debug
                         THEN [@ EXCEPT ![num_layers - 2] = c.potentials]
                         ELSE @]
    IN IF c.debug
       THEN [status |-> "returned", engine |-> c.engine,
             latency |-> c.latency, return_psps |-> c.return_psps,
             debug |-> c.debug, shape |-> "trains_rec",
             spike_trains_l |-> c.spike_trains_l, rec |-> rec]
       ELSE IF c.return_psps
       THEN [status |-> "returned", engine |-> c.engine,
             latency |-> c.latency, return_psps |-> c.return_psps,
             debug |-> c.debug, shape |-> "trains_psps",
             spike_trains_l |-> c.spike_trains_l, psps |-> rec.psp]
       ELSE [status |-> "returned", engine |-> c.engine,
             latency |-> c.latency, return_psps |-> c.return_psps,
             debug |-> c.debug, shape |-> "trains",
             spike_trains_l |-> c.spike_trains_l]

simulate_return ==
    /\ call.pc = "return"
    /\ ret' = [ret EXCEPT ![call.k] = SimulateResult(call)]
    /\ call' = Idle
    /\ UNCHANGED <<sizes, stimulus, seed, kappa_0, net, rng>>

---------------------------------------------------------------------------
(* The fixed-step engine: MultilayerSRM.simulate_steps,                    *)
(* MultilayerSRMSub.simulate_steps                                         *)

\* a[x] as numpy reads it for an integer x: negative x counts from the end
PyIndexOk(x, n) == 0 - n <= x /\ x < n

PyIndex(x, n) == IF x < 0 THEN x + n ELSE x

\* np.dot(w[l], psps) for one step: (num_post, num_pre) x (num_pre,)
DotVec(wl, v) ==
    [i \in DOMAIN wl |-> SumTo([j \in DOMAIN v |-> wl[i][j] * v[j]], Size(v))]

\* np.tensordot(w[l], psps) for one step: (num_post, num_pre, num_subs) x
\* (num_pre, num_subs)
TensorDotVec(wl, v) ==
    [i \in DOMAIN wl |->
        SumTo([j \in DOMAIN v |->
                  SumTo([k \in DOMAIN v[j] |-> wl[i][j][k] * v[j][k]],
                        Size(v[j]))],
              Size(v))]

\* mat[:, t] = col
SetCol(mat, t, col) == [i \in DOMAIN mat |-> [mat[i] EXCEPT ![t] = col[i]]]

\* np.where(isspike)[0] * self.dt
TrainOf(isspike) ==
    LET idxs == WhereTo(isspike, Size(isspike))
    IN [n \in 1 .. Len(idxs) |-> idxs[n] * dt]

\* the log entry of a sample: compared for neuron i of hidden layer l at
\* step t, taken from generator position pos while step at was running
\* (at = -1: before the first step)
Smpl(l, i, t, pos, at) == [l |-> l, i |-> i, t |-> t, pos |-> pos, at |-> at]

\* generator position at which the plain network's batch for hidden layer
\* l starts: the batches of the layers before it come first
RECURSIVE BatchStart(_, _, _)
BatchStart(pos, l, T) ==
    IF l = 0 THEN pos ELSE BatchStart(pos, l - 1, T) + BatchCount(sizes[l], T)

\* MultilayerSRM.simulate_steps(psp_inputs, debug) up to the first step
plain_simulate_steps(k, debug) ==
    /\ MayCall(k, "simulate_steps")
    /\ net[k].cls = "plain"
    /\ LET psp_inputs == stimulus
           num_iter == Size(psp_inputs[0])
           H == Idx(num_layers - 2)
           pos == rng[Generator(k)]
       IN /\ call' =
               [pc |-> "steps", k |-> k, engine |-> "simulate_steps",
                latency |-> FALSE, return_psps |-> FALSE, debug |-> debug,
                num_iter |-> num_iter, t_step |-> 0,
                psp_inputs |-> psp_inputs,
                spiked_l |-> [l \in Idx(num_layers - 1) |->
                                 [i \in Idx(sizes[l + 1]) |->
                                     [t \in Idx(num_iter) |-> FALSE]]],
                psp_trace_l |-> [l \in H |-> [i \in Idx(sizes[l + 1]) |->
                                                 Zeros(2)]],
                refr_l |-> [l \in Idx(num_layers - 1) |-> Zeros(sizes[l + 1])],
                unif_samples |->
                    [l \in H |-> UniformBatch(seed, BatchStart(pos, l, num_iter),
                                              sizes[l + 1], num_iter)],
                rec |-> IF debug
                        THEN [psp |-> [l \in H |-> [i \in Idx(sizes[l + 1]) |->
                                          EmptyList(num_iter)]],
                              u |-> [l \in Idx(num_layers - 1) |->
                                        [i \in Idx(sizes[l + 1]) |->
                                            EmptyList(num_iter)]],
                              S |-> [l \in Idx(num_layers - 1) |->
                                        [i \in Idx(sizes[l + 1]) |->
                                            EmptyList(num_iter)]]]
                        ELSE "unset",
                smpls |-> UNION {{Smpl(l, i, t,
                                BatchStart(pos, l, num_iter) + i * num_iter + t,
                                0 - 1) :
                              i \in Idx(sizes[l + 1]), t \in Idx(num_iter)} :
                          l \in H}]
          /\ rng' = [rng EXCEPT
                        ![Generator(k)] =
                            BatchStart(pos, num_layers - 2, num_iter)]
    /\ UNCHANGED <<sizes, stimulus, seed, kappa_0, net, ret>>

\* one pass of the loop over t_step of the plain network
plain_time_step ==
    /\ call.pc = "steps"
    /\ net[call.k].cls = "plain"
    /\ call.t_step < call.num_iter
    /\ LET k == call.k
           t == call.t_step
           H == Idx(num_layers - 2)
           L == Idx(num_layers - 1)
           trace == [l \in H |-> [i \in DOMAIN call.psp_trace_l[l] |->
                        [c \in 0 .. 1 |->
                            IF c = 0 THEN decay_m(call.psp_trace_l[l][i][0])
                            ELSE decay_s(call.psp_trace_l[l][i][1])]]]
           psp_l == [l \in H |-> [i \in DOMAIN trace[l] |->
                        trace[l][i][0] - trace[l][i][1]]]
           refr == [l \in L |-> [i \in DOMAIN call.refr_l[l] |->
                       decay_m(call.refr_l[l][i])]]
           psps(l) == IF l = 0
                      THEN [j \in DOMAIN call.psp_inputs |->
                               call.psp_inputs[j][t]]
                      ELSE psp_l[l - 1]
           potentials == [l \in L |->
                             LET d == DotVec(net[k].w[l], psps(l))
                             IN [i \in DOMAIN d |-> d[i] + refr[l][i]]]
           spiked == [l \in L |-> [i \in DOMAIN potentials[l] |->
                         IF l < num_layers - 2
                         THEN call.unif_samples[l][i][t] <
                                  RateDt(potentials[l][i])
                         ELSE potentials[l][i] > theta]]
       IN call' = [call EXCEPT
                !.t_step = @ + 1,
                !.spiked_l = [l \in L |-> SetCol(@[l], t, spiked[l])],
                !.psp_trace_l =
                    [l \in H |-> [i \in DOMAIN trace[l] |->
                        [c \in 0 .. 1 |->
                            trace[l][i][c]
                            + (IF spiked[l][i] THEN psp_coeff ELSE 0)]]],
                !.refr_l =
                    [l \in L |-> [i \in DOMAIN refr[l] |->
                        refr[l][i]
                        + (IF spiked[l][i] THEN kappa_0 * Unit ELSE 0)]],
                !.rec = IF call.debug
                        THEN [psp |-> [l \in H |-> SetCol(@.psp[l], t, psp_l[l])],
                              u |-> [l \in L |->
                                        SetCol(@.u[l], t, potentials[l])],
                              S |-> [l \in L |-> SetCol(@.S[l], t, spiked[l])]]
                        ELSE @]
    /\ UNCHANGED <<sizes, stimulus, seed, kappa_0, net, rng, ret>>

\* the last entry of an array: a[-1]
Last(a) == a[Size(a) - 1]

\* np.concatenate((row, np.zeros(n)))
Pad(row, n) ==
    [t \in Idx(Size(row) + n) |-> IF t < Size(row) THEN row[t] ELSE 0]

\* MultilayerSRMSub.simulate_steps(stimulus, return_psps, debug) up to the
\* first step
sub_simulate_steps(k, return_psps, debug) ==
    /\ MayCall(k, "simulate_steps")
    /\ net[k].cls = "sub"
    /\ LET psp_inputs == stimulus_as_psps(stimulus)
           num_iter == Size(psp_inputs[0])
           H == Idx(num_layers - 2)
           L == Idx(num_layers - 1)
       IN call' =
            [pc |-> "steps", k |-> k, engine |-> "simulate_steps",
             latency |-> FALSE, return_psps |-> return_psps,
             debug |-> debug, num_iter |-> num_iter, t_step |-> 0,
             psp_inputs |-> [j \in DOMAIN psp_inputs |->
                                Pad(psp_inputs[j], Last(net[k].delays[0]))],
             spiked_l |-> [l \in L |-> [i \in Idx(sizes[l + 1]) |->
                              [t \in Idx(num_iter) |-> FALSE]]],
             psp_trace_l |->
                 [l \in H |-> [c \in 0 .. 1 |-> [i \in Idx(sizes[l + 1]) |->
                     Zeros(Last(net[k].delays[l + 1]) + 1)]]],
             refr_l |-> [l \in L |-> Zeros(sizes[l + 1])],
             unif_samples |-> <<>>,
             rec |-> [psp |-> IF return_psps
                              THEN [l \in L |-> [j \in Idx(sizes[l]) |->
                                       [s \in Idx(net[k].num_subs[l]) |->
                                           EmptyList(num_iter)]]]
                              ELSE "unset",
                      u |-> IF debug
                            THEN [l \in L |-> [i \in Idx(sizes[l + 1]) |->
                                     EmptyList(num_iter)]]
                            ELSE "unset",
                      S |-> IF debug
                            THEN [l \in L |-> [i \in Idx(sizes[l + 1]) |->
                                     EmptyList(num_iter)]]
                            ELSE "unset"],
             smpls |-> {}]
    /\ UNCHANGED <<sizes, stimulus, seed, kappa_0, net, rng, ret>>

\* samples drawn by rng.rand(len(rates)) in the hidden layers before l
\* within one step
\* the generator is not advanced by the draws of a step
DrawnNone(l) == 0

RECURSIVE DrawnBefore(_)
DrawnBefore(l) == IF l = 0 THEN 0 ELSE DrawnBefore(l - 1) + sizes[l]

\* rec['psp'][l][:, :, t] = psps
SetPlane(cube, t, plane) ==
    [j \in DOMAIN cube |-> [s \in DOMAIN cube[j] |->
        [cube[j][s] EXCEPT ![t] = plane[j][s]]]]

\* one pass of the loop over t_step of the subconnection network
sub_time_step ==
    /\ call.pc = "steps"
    /\ net[call.k].cls = "sub"
    /\ call.t_step < call.num_iter
    /\ UNCHANGED <<sizes, stimulus, seed, kappa_0, net>>
    /\ LET k == call.k
           t == call.t_step
           H == Idx(num_layers - 2)
           L == Idx(num_layers - 1)
           delays == net[k].delays
           padded == Size(call.psp_inputs[0])
           trace == [l \in H |-> [c \in 0 .. 1 |->
                       [i \in DOMAIN call.psp_trace_l[l][c] |->
                           [h \in DOMAIN call.psp_trace_l[l][c][i] |->
                               IF h >= 1 THEN call.psp_trace_l[l][c][i][h - 1]
                               ELSE IF c = 0
                               THEN decay_m(call.psp_trace_l[l][c][i][0])
                               ELSE decay_s(call.psp_trace_l[l][c][i][0])]]]]
           psp_l == [l \in H |-> [i \in DOMAIN trace[l][0] |->
                        [h \in DOMAIN trace[l][0][i] |->
                            trace[l][0][i][h] - trace[l][1][i][h]]]]
           refr == [l \in L |-> [i \in DOMAIN call.refr_l[l] |->
                       decay_m(call.refr_l[l][i])]]
           \* the index arrays t_step - delays[0] and delays[l] are in range
           idxOk(l) ==
               \A s \in DOMAIN delays[l] :
                   IF l = 0 THEN PyIndexOk(t - delays[0][s], padded)
                   ELSE PyIndexOk(delays[l][s], Last(delays[l]) + 1)
           psps(l) ==
               IF l = 0
               THEN [j \in DOMAIN call.psp_inputs |-> [s \in DOMAIN delays[0] |->
                        call.psp_inputs[j][PyIndex(t - delays[0][s], padded)]]]
               ELSE [j \in DOMAIN psp_l[l - 1] |-> [s \in DOMAIN delays[l] |->
                        psp_l[l - 1][j][delays[l][s]]]]
           bad == {l \in L : ~idxOk(l)}
           first_bad == CHOOSE l \in bad : \A m \in bad : l <= m
           potentials == [l \in L |->
                             LET d == TensorDotVec(net[k].w[l], psps(l))
                             IN [i \in DOMAIN d |-> d[i] + refr[l][i]]]
           pos(l, i) == rng[Generator(k)] + DrawnBefore(l) + i
           spiked == [l \in L |-> [i \in DOMAIN potentials[l] |->
                         IF l < num_layers - 2
                         THEN UniformAt(seed, pos(l, i)) <
                                  RateDt(potentials[l][i])
                         ELSE potentials[l][i] > theta]]
       IN IF bad # {}
          THEN /\ Raise(k, "simulate_steps", FALSE, "IndexError")
               /\ rng' = [rng EXCEPT
                             ![Generator(k)] = @ + DrawnBefore(first_bad)]
          ELSE /\ ret' = ret
               /\ rng' = [rng EXCEPT
                             ![Generator(k)] = @ + DrawnBefore(num_layers - 2)]
               /\ call' = [call EXCEPT
                    !.t_step = @ + 1,
                    !.spiked_l = [l \in L |-> SetCol(@[l], t, spiked[l])],
                    !.psp_trace_l =
                        [l \in H |-> [c \in 0 .. 1 |->
                            [i \in DOMAIN trace[l][c] |->
                                [trace[l][c][i] EXCEPT
                                    ![0] = @ + (IF spiked[l][i] THEN psp_coeff
                                                ELSE 0)]]]],
                    !.refr_l =
                        [l \in L |-> [i \in DOMAIN refr[l] |->
                            refr[l][i]
                            + (IF spiked[l][i] THEN kappa_0 * Unit ELSE 0)]],
                    !.rec =
                        [psp |-> IF call.return_psps
                                 THEN [l \in L |-> SetPlane(@.psp[l], t, psps(l))]
                                 ELSE @.psp,
                         u |-> IF call.debug
                               THEN [l \in L |-> SetCol(@.u[l], t, potentials[l])]
                               ELSE @.u,
                         S |-> IF call.debug
                               THEN [l \in L |-> SetCol(@.S[l], t, spiked[l])]
                               ELSE @.S],
                    !.smpls = @ \cup
                        UNION {{Smpl(l, i, t, pos(l, i), t) :
                                   i \in Idx(sizes[l + 1])} : l \in H}]

\* what simulate_steps returns
StepsResult(c) ==
    LET trains == [l \in DOMAIN c.spiked_l |->
                      [i \in DOMAIN c.spiked_l[l] |-> TrainOf(c.spiked_l[l][i])]]
    IN IF c.debug
       THEN [status |-> "returned", engine |-> c.engine,
             latency |-> c.latency, return_psps |-> c.return_psps,
             debug |-> c.debug, shape |-> "trains_rec",
             spike_trains_l |-> trains, rec |-> c.rec]
       ELSE IF c.return_psps
       THEN [status |-> "returned", engine |-> c.engine,
             latency |-> c.latency, return_psps |-> c.return_psps,
             debug |-> c.debug, shape |-> "trains_psps",
             spike_trains_l |-> trains, psps |-> c.rec.psp]
       ELSE [status |-> "returned", engine |-> c.engine,
             latency |-> c.latency, return_psps |-> c.return_psps,
             debug |-> c.debug, shape |-> "trains",
             spike_trains_l |-> trains]

steps_return ==
    /\ call.pc = "steps"
    /\ call.t_step = call.num_iter
    /\ ret' = [ret EXCEPT ![call.k] = StepsResult(call)]
    /\ call' = Idle
    /\ UNCHANGED <<sizes, stimulus, seed, kappa_0, net, rng>>

---------------------------------------------------------------------------
(* Weight assignment of the subconnection network: _build_network,         *)
(* _init_weights, set_weights                                              *)

\* np.round(a / b) for a, b > 0: halves go to the even neighbour
NpRound(a, b) ==
    LET q == a \div b
        r == a % b
    IN IF 2 * r < b THEN q
       ELSE IF 2 * r > b THEN q + 1
       ELSE IF q % 2 = 0 THEN q ELSE q + 1

\* conns_fr as a number of halves: 1/2 and 1
ConnsFrHalves == 1 .. 2

\* np.round((1. - conns_fr) * num_subs)
num_clamps(conns_fr2, num) == NpRound((2 - conns_fr2) * num, 2)

\* np.round(conns_fr * num_subs)
num_conns(conns_fr2, num) == NpRound(conns_fr2 * num, 2)

\* the masks _build_network can leave: for each hidden weight coordinate
\* (post, pre), rng.choice marks num_clamps of the num subconnections
RECURSIVE MaskLists(_, _, _, _)
MaskLists(sz, n, num, clamps) ==
    IF n = 0 THEN {<<>>}
    ELSE {Append(ms, m) :
              ms \in MaskLists(sz, n - 1, num, clamps),
              m \in [Idx(sz[n]) -> [Idx(sz[n - 1]) ->
                        {c \in [Idx(num) -> BOOLEAN] :
                             Cardinality({d \in Idx(num) : c[d]}) = clamps}]]}

ClampMasks(sz, num, clamps) ==
    {Arr(ms) : ms \in MaskLists(sz, Size(sz) - 2, num, clamps)}

\* the weights are left as they are given
ClampSkipped(w, has_mask, mask) == w

\* if hasattr(self, 'clamp_mask'):
\*     for w, m in zip(self.w[:-1], self.clamp_mask): w[m] = 0.
ClampHidden(w, has_mask, mask) ==
    IF has_mask
    THEN [l \in DOMAIN w |->
             IF l < Size(w) - 1
             THEN [i \in DOMAIN w[l] |-> [j \in DOMAIN w[l][i] |->
                      [d \in DOMAIN w[l][i][j] |->
                          IF mask[l][i][j][d] THEN 0 ELSE w[l][i][j][d]]]]
             ELSE w[l]]
    ELSE w

\* set_weights of the base class: self.w takes the values given
BaseSetWeights(weights) == weights

\* the weights set_weights(weights) leaves in a network
SetWeights(weights, has_mask, mask) ==
    ClampHidden(BaseSetWeights(weights), has_mask, mask)

\* MultilayerSRMSub(sizes, param, weights, num_subs, conns_fr): the network
\* after construction, its weights set through set_weights
MaskedSubNet(sz, W, num, has_mask, mask, conns_fr2) ==
    [cls |-> "sub",
     num_subs |-> [l \in Idx(Size(sz) - 1) |-> num],
     delays |-> [l \in Idx(Size(sz) - 1) |-> LinDelaysOf(num)],
     has_clamp_mask |-> has_mask, clamp_mask |-> mask,
     conns_fr2 |-> conns_fr2,
     w |-> SetWeights(W, has_mask, mask)]

\* weight lists set_weights is called with: one value per layer
LayerConstant(W) ==
    \A l \in DOMAIN W : \A i, i2 \in DOMAIN W[l] : \A j, j2 \in DOMAIN W[l][i] :
        W[l][i][j] = W[l][i2][j2]

SetWeightsArgs(sz, num) ==
    {[l \in DOMAIN W |-> Spread(W[l], num)] :
         W \in {V \in WeightArgs(sz) : LayerConstant(V)}}

\* a weight self.rng.uniform(*w_init) draws at generator position pos
InitWeightAt(s, pos) == 2 * (1 + UniformAt(s, pos))

\* number of entries of the weight arrays of the layers before l
RECURSIVE EntriesBefore(_, _)
EntriesBefore(l, num) ==
    IF l = 0 THEN 0
    ELSE EntriesBefore(l - 1, num) + sizes[l] * sizes[l - 1] * num

\* the list _init_weights hands to set_weights: drawn layer by layer, the
\* hidden layers first, then normalised
InitWeights(k) ==
    LET num == net[k].num_subs[0]
        pos == rng[Generator(k)]
        drawn == [l \in Idx(num_layers - 1) |->
                     [i \in Idx(sizes[l + 1]) |-> [j \in Idx(sizes[l]) |->
                         [d \in Idx(num) |->
                             InitWeightAt(seed,
                                 pos + EntriesBefore(l, num)
                                     + (i * sizes[l] + j) * num + d)]]]]
        norm(l) == IF net[k].has_clamp_mask /\ l < num_layers - 2
                   THEN num_conns(net[k].conns_fr2, num)
                   ELSE num
    IN [l \in DOMAIN drawn |-> [i \in DOMAIN drawn[l] |->
           [j \in DOMAIN drawn[l][i] |-> [d \in DOMAIN drawn[l][i][j] |->
               drawn[l][i][j][d] \div norm(l)]]]]

\* what a weight call leaves behind: the list it gave to set_weights
WeightsSet(method, weights) ==
    [status |-> "returned", engine |-> method, latency |-> FALSE,
     weights |-> weights]

\* MultilayerSRMSub.set_weights(weights)
set_weights(k) ==
    /\ call.pc = "idle"
    /\ \E weights \in SetWeightsArgs(sizes, net[k].num_subs[0]) :
           /\ net' = [net EXCEPT
                        ![k].w = SetWeights(weights, net[k].has_clamp_mask,
                                            net[k].clamp_mask)]
           /\ ret' = [ret EXCEPT ![k] = WeightsSet("set_weights", weights)]
    /\ UNCHANGED <<sizes, stimulus, seed, kappa_0, rng, call>>

\* MultilayerSRMSub._init_weights(), not more than twice on a network
_init_weights(k) ==
    /\ call.pc = "idle"
    /\ rng[Generator(k)] <
           2 * EntriesBefore(num_layers - 1, net[k].num_subs[0])
    /\ LET weights == InitWeights(k)
       IN /\ net' = [net EXCEPT
                        ![k].w = SetWeights(weights, net[k].has_clamp_mask,
                                            net[k].clamp_mask)]
          /\ ret' = [ret EXCEPT ![k] = WeightsSet("_init_weights", weights)]
          /\ rng' = [rng EXCEPT
                        ![Generator(k)] =
                            @ + EntriesBefore(num_layers - 1,
                                              net[k].num_subs[0])]
    /\ UNCHANGED <<sizes, stimulus, seed, kappa_0, call>>

\* the state after the construction of a network with conns_fr and of one
\* without it, both with two subconnections
InitWeighted ==
    /\ sizes \in NetSizes
    /\ stimulus = [j \in Idx(sizes[0]) |-> Zeros(LutLen)]
    /\ seed \in Seeds
    /\ kappa_0 = 0 - 2
    /\ \E W \in SetWeightsArgs(sizes, 2) : \E c \in ConnsFrHalves :
           \E mask \in ClampMasks(sizes, 2, num_clamps(c, 2)) :
               net = [k \in 1 .. 2 |->
                         IF k = 1 THEN MaskedSubNet(sizes, W, 2, TRUE, mask, c)
                         ELSE MaskedSubNet(sizes, W, 2, FALSE, <<>>, 2)]
    /\ rng = [g \in 1 .. 2 |-> 0]
    /\ call = Idle
    /\ ret = [k \in 1 .. 2 |-> NoReturn]

NextWeights ==
    \/ \E k \in 1 .. 2 : set_weights(k)
    \/ \E k \in 1 .. 2 : _init_weights(k)

---------------------------------------------------------------------------
(* Learning windows: EXPWindow.causal, PSPWindow.causal,                   *)
(* LearnWindow.causal_reduce                                               *)

RECURSIVE SetToTrain(_)
\* the spike train with a spike at each step of S, in increasing order
SetToTrain(S) ==
    IF S = {} THEN <<>>
    ELSE LET last == CHOOSE m \in S : \A n \in S : n <= m
         IN Append(SetToTrain(S \ {last}), SpikeTime(last))

\* spike trains as the engines return them, over the steps of a pattern
SpikeTrains == {SetToTrain(S) : S \in SUBSET Idx(LutLen)}

\* the delays argument of a window: None, or one delay per subconnection
WindowDelays == {<<>>} \cup {<<D>> : D \in LinDelays}

\* np.exp(-lag / self.tau_m), for lag >= 0 in steps
ExpTrace(lag) == Unit \div Pow(2, lag)

\* self.epsilon_0 * (np.exp(-lags / self.tau_m) - np.exp(-lags / self.tau_s))
PspTrace(lag) ==
    IF lag >= 0 THEN (psp_coeff \div Pow(2, lag)) - (psp_coeff \div Pow(4, lag))
    ELSE psp_coeff * Pow(2, Neg(lag)) - psp_coeff * Pow(4, Neg(lag))

\* the lag counts whatever its sign
HeavisideAll(lag) == 1

\* u = (lags > 0.).astype(float)
Heaviside(lag) == IF lag > 0 THEN 1 ELSE 0

\* the first of the masked pre-spikes
FirstOf(pre_last) == pre_last[1]

\* pre_last[-1]
LastOf(pre_last) == pre_last[Len(pre_last)]

\* every pre-spike stays
KeepAll(pre_spikes, t_post) == pre_spikes

\* pre_spikes[~pre_mask] with pre_mask = pre_spikes <= t_post
Unmasked(pre_spikes, t_post) ==
    SelectSeq(pre_spikes, LAMBDA p : ~(p <= t_post))

\* pre_spikes[pre_mask]
Masked_pre(pre_spikes, t_post) ==
    SelectSeq(pre_spikes, LAMBDA p : p <= t_post)

\* np.sum(traces, -1) of an array given as nested tuples: the innermost
\* tuples are summed
RECURSIVE SumSeq(_)
SumSeq(row) == IF row = <<>> THEN 0 ELSE row[1] + SumSeq(Tail(row))

\* the arguments a window call keeps
WindowArgs(window, reduce, post_spikes, pre_spikes, delays) ==
    [window |-> window, reduce |-> reduce, post_spikes |-> post_spikes,
     pre_spikes |-> pre_spikes, has_delays |-> delays # <<>>,
     delays |-> IF delays = <<>> THEN <<>> ELSE delays[1]]

\* one window call is made
MayCallWindow ==
    /\ call.pc = "idle"
    /\ \A k \in 1 .. 2 : ret[k].status = "none"

\* EXPWindow.causal(post_spikes, pre_spikes, delays), directly or through
\* causal_reduce, up to its loop
exp_causal(reduce) ==
    /\ MayCallWindow
    /\ \E post_spikes \in SpikeTrains, pre_spikes \in SpikeTrains,
          delays \in WindowDelays :
           call' = [pc |-> "exp_loop", k |-> 1,
                    args |-> WindowArgs("EXPWindow", reduce, post_spikes,
                                        pre_spikes, delays),
                    idx |-> 0,
                    pre_spikes |-> pre_spikes,
                    traces |-> [n \in 1 .. Len(post_spikes) |-> <<0>>]]
    /\ UNCHANGED <<sizes, stimulus, seed, kappa_0, net, rng, ret>>

\* one pass of the loop over the post-spikes
exp_pair ==
    /\ call.pc = "exp_loop"
    /\ call.idx < Len(call.args.post_spikes)
    /\ call.pre_spikes # <<>>
    /\ LET t_post == call.args.post_spikes[call.idx + 1]
           pre_last == Masked_pre(call.pre_spikes, t_post)
       IN call' = IF pre_last # <<>>
                  THEN [call EXCEPT
                           !.traces[call.idx + 1] =
                               <<ExpTrace(t_post - LastOf(pre_last))>>,
                           !.pre_spikes = Unmasked(call.pre_spikes, t_post),
                           !.idx = @ + 1]
                  ELSE [call EXCEPT !.idx = @ + 1]
    /\ UNCHANGED <<sizes, stimulus, seed, kappa_0, net, rng, ret>>

\* what a window call leaves behind
WindowResult(args, traces) ==
    [status |-> "returned", engine |-> args.window, latency |-> FALSE,
     args |-> args,
     traces |-> IF ~args.reduce THEN traces
                ELSE IF args.window = "PSPWindow" /\ args.has_delays
                THEN [n \in DOMAIN traces |->
                         [j \in DOMAIN traces[n] |-> SumSeq(traces[n][j])]]
                ELSE [n \in DOMAIN traces |-> SumSeq(traces[n])]]

\* the loop is over, or was never entered: return traces
exp_return ==
    /\ call.pc = "exp_loop"
    /\ ~(call.idx < Len(call.args.post_spikes) /\ call.pre_spikes # <<>>)
    /\ ret' = [ret EXCEPT ![call.k] = WindowResult(call.args, call.traces)]
    /\ call' = Idle
    /\ UNCHANGED <<sizes, stimulus, seed, kappa_0, net, rng>>

\* the traces of PSPWindow.causal: shape (num_post, num_pre), or
\* (num_post, num_subs, num_pre) with delays
PspTraces(post_spikes, pre_spikes, has_delays, delays) ==
    IF has_delays
    THEN [n \in DOMAIN post_spikes |-> [j \in 1 .. Size(delays) |->
             [m \in DOMAIN pre_spikes |->
                 LET lag == post_spikes[n] - (pre_spikes[m] + delays[j - 1])
                 IN PspTrace(lag) * Heaviside(lag)]]]
    ELSE [n \in DOMAIN post_spikes |-> [m \in DOMAIN pre_spikes |->
             LET lag == post_spikes[n] - pre_spikes[m]
             IN PspTrace(lag) * Heaviside(lag)]]

\* PSPWindow.causal(post_spikes, pre_spikes, delays), directly or through
\* causal_reduce
psp_causal(reduce) ==
    /\ MayCallWindow
    /\ \E post_spikes \in SpikeTrains, pre_spikes \in SpikeTrains,
          delays \in WindowDelays :
           LET args == WindowArgs("PSPWindow", reduce, post_spikes,
                                  pre_spikes, delays)
           IN ret' = [ret EXCEPT
                         ![2] = WindowResult(args,
                                    PspTraces(post_spikes, pre_spikes,
                                              args.has_delays, args.delays))]
    /\ UNCHANGED <<sizes, stimulus, seed, kappa_0, net, rng, call>>

\* no network is simulated while the windows are called
InitWindows ==
    /\ sizes = Arr(<<1, 2, 1>>)
    /\ stimulus = [j \in Idx(sizes[0]) |-> Zeros(LutLen)]
    /\ seed = 0
    /\ kappa_0 = 0 - 2
    /\ net = [k \in 1 .. 2 |->
                 PlainNet(sizes, [l \in Idx(Size(sizes) - 1) |->
                                     [i \in Idx(sizes[l + 1]) |->
                                         [j \in Idx(sizes[l]) |-> 0]]])]
    /\ rng = [g \in 1 .. 2 |-> 0]
    /\ call = Idle
    /\ ret = [k \in 1 .. 2 |-> NoReturn]

NextWindows ==
    \/ \E reduce \in BOOLEAN : exp_causal(reduce)
    \/ exp_pair
    \/ exp_return
    \/ \E reduce \in BOOLEAN : psp_causal(reduce)

\* layer sizes with two neurons in the hidden and in the output layer
OrderSizes == {Arr(<<1, 2, 2>>)}

\* rows of input PSPs that set in at the first or the second step and stay
OrderRows == {row \in StimulusRows : row[1] = Unit /\ row[LutLen - 1] = Unit}

\* two networks of the same class, sizes, weights and seed
InitOrder ==
    /\ sizes \in OrderSizes
    /\ stimulus \in [Idx(sizes[0]) -> OrderRows]
    /\ seed \in Seeds
    /\ kappa_0 \in Kappa0Vals
    /\ \E W \in WeightArgs(sizes) : net \in BothPairs(sizes, W)
    /\ rng = [g \in 1 .. 2 |-> 0]
    /\ call = Idle
    /\ ret = [k \in 1 .. 2 |-> NoReturn]

\* layer sizes without a hidden layer
DirectSizes == {Arr(<<2, 1>>)}

\* two plain networks without a hidden layer, of the same weights
InitDirect ==
    /\ sizes \in DirectSizes
    /\ stimulus \in Stimuli(sizes[0])
    /\ seed \in Seeds
    /\ kappa_0 \in Kappa0Vals
    /\ \E W \in WeightArgs(sizes) : net = <<PlainNet(sizes, W), PlainNet(sizes, W)>>
    /\ rng = [g \in 1 .. 2 |-> 0]
    /\ call = Idle
    /\ ret = [k \in 1 .. 2 |-> NoReturn]

\* arguments the calls are made with
Flags == {<<FALSE, FALSE, FALSE>>, <<TRUE, FALSE, FALSE>>}

\* calls of the iterative engine
NextSim ==
    \/ simulate(1, FALSE, FALSE, FALSE)
    \/ \E f \in Flags : simulate(2, f[1], f[2], f[3])
    \/ hidden_layer
    \/ output_layer
    \/ hidden_spike
    \/ hidden_break
    \/ output_spike
    \/ output_break
    \/ simulate_return

\* return_psps and debug, each set or unset
RecordFlags == BOOLEAN \X BOOLEAN

\* calls of the iterative engine on one network, with or without the PSPs
\* and the record
NextRecord ==
    \/ \E f \in RecordFlags : simulate(1, FALSE, f[1], f[2])
    \/ hidden_layer
    \/ output_layer
    \/ hidden_spike
    \/ hidden_break
    \/ output_spike
    \/ output_break
    \/ simulate_return

\* network 1 runs the loops of a layer neuron after neuron, network 2 in
\* any order and interleaving; both return the PSPs and the record
NextOrder ==
    \/ \E k \in 1 .. 2 : simulate(k, FALSE, TRUE, TRUE)
    \/ hidden_layer
    \/ output_layer
    \/ hidden_spike
    \/ output_spike
    \/ hidden_break /\ call.k = 1
    \/ output_break /\ call.k = 1
    \/ switch_neuron /\ call.k = 2
    \/ any_break /\ call.k = 2
    \/ simulate_return

\* calls of both engines on networks without a hidden layer
NextDirect ==
    \/ \E k \in 1 .. 2 : simulate(k, FALSE, FALSE, FALSE)
    \/ output_layer
    \/ output_spike
    \/ output_break
    \/ simulate_return
    \/ \E k \in 1 .. 2 : plain_simulate_steps(k, FALSE)
    \/ plain_time_step
    \/ steps_return

\* calls of the fixed-step engine
NextSteps ==
    \/ \E k \in 1 .. 2 : plain_simulate_steps(k, FALSE)
    \/ plain_time_step
    \/ \E k \in 1 .. 2 : sub_simulate_steps(k, FALSE, FALSE)
    \/ sub_time_step
    \/ steps_return

Next == NextSim \/ NextSteps

\* the iterative engine on networks built with linearly spaced delays
Spec == Init /\ [][NextSim]_vars

\* the fixed-step engine on networks built with either delay distribution
SpecSteps == InitSteps /\ [][NextSteps]_vars

\* both engines on two networks of the same class
SpecBoth == InitBoth /\ [][Next]_vars

\* weight assignment on subconnection networks with and without a mask
SpecWeights == InitWeighted /\ [][NextWeights]_vars

\* the learning windows on spike trains
SpecWindows == InitWindows /\ [][NextWindows]_vars

\* the iterative engine with the optional results asked for
SpecRecord == Init /\ [][NextRecord]_vars

\* the iterative engine with the loops of a layer in any order
SpecOrder == InitOrder /\ [][NextOrder]_vars

\* both engines on networks without a hidden layer
SpecDirect == InitDirect /\ [][NextDirect]_vars

---------------------------------------------------------------------------
(* Properties of the iterative engine, checked under Spec                  *)

StrictlyIncreasing(train) ==
    \A a, b \in 1 .. Len(train) : a < b => train[a] < train[b]

TrainsOf(trains) ==
    UNION {{trains[l][i] : i \in DOMAIN trains[l]} : l \in DOMAIN trains}

InSimulate == call.pc \in {"layer", "hidden", "output", "return"}

Returned(k, engine) == ret[k].status = "returned" /\ ret[k].engine = engine

\* C1: every spike train of the iterative simulate, while it is built and
\* when it is returned, is strictly increasing, for hidden and output
\* neurons of the plain and of the subconnection network, for a negative
\* and for a positive refractory kernel; and when a neuron has accepted a
\* spike at fire_idx, the next index it would accept from the recomputed
\* candidates is greater than fire_idx.
C1_TrainsStrictlyIncreasing ==
    /\ InSimulate =>
           \A train \in TrainsOf(call.spike_trains_l) : StrictlyIncreasing(train)
    /\ \A k \in 1 .. 2 :
           Returned(k, "simulate") =>
               \A train \in TrainsOf(ret[k].spike_trains_l) :
                   StrictlyIncreasing(train)
    /\ (call.pc \in {"hidden", "output"} /\ call.num_spikes >= 1
            /\ call.num_spikes < Len(thr_idxs)) =>
           NextFireIdx(thr_idxs, call.num_spikes) > call.fire_idx

\* a subconnection network with a positive refractory kernel has returned
\* a hidden train of two spikes or more and an output train that is not
\* empty
C1_Witness ==
    /\ Returned(2, "simulate")
    /\ net[2].cls = "sub"
    /\ kappa_0 > 0
    /\ \E i \in DOMAIN ret[2].spike_trains_l[0] :
           Len(ret[2].spike_trains_l[0][i]) >= 2
    /\ \E i \in DOMAIN ret[2].spike_trains_l[num_layers - 2] :
           Len(ret[2].spike_trains_l[num_layers - 2][i]) >= 1

\* the two networks are of one class, the first was run without latency
\* and the second with it
LatencyPair ==
    /\ Returned(1, "simulate") /\ Returned(2, "simulate")
    /\ net[1] = net[2]
    /\ ~ret[1].latency /\ ret[2].latency

\* C2: from the same network, stimulus and generator state, simulate with
\* latency returns for every output neuron the train without latency cut
\* to its first spike (empty when that train is empty), and the same
\* hidden trains.
C2_LatencyPrefix ==
    LatencyPair =>
        \A l \in DOMAIN ret[1].spike_trains_l :
            \A i \in DOMAIN ret[1].spike_trains_l[l] :
                LET full == ret[1].spike_trains_l[l][i]
                    first == ret[2].spike_trains_l[l][i]
                IN IF l = num_layers - 2
                   THEN first = SubSeq(full, 1, Min2(1, Len(full)))
                   ELSE first = full

\* a latency run whose companion run has an output train of two spikes
C2_Witness ==
    /\ LatencyPair
    /\ \E i \in DOMAIN ret[1].spike_trains_l[num_layers - 2] :
           /\ Len(ret[1].spike_trains_l[num_layers - 2][i]) >= 2
           /\ Len(ret[2].spike_trains_l[num_layers - 2][i]) = 1

\* every weight of network k is zero
ZeroWeights(k) ==
    \A l \in DOMAIN net[k].w : \A i \in DOMAIN net[k].w[l] :
        \A j \in DOMAIN net[k].w[l][i] :
            IF net[k].cls = "sub"
            THEN \A d \in DOMAIN net[k].w[l][i][j] : net[k].w[l][i][j][d] = 0
            ELSE net[k].w[l][i][j] = 0

\* C3 as stated: with zero weights simulate returns only empty trains,
\* whatever the samples are.
C3_AllSilent ==
    \A k \in 1 .. 2 :
        (Returned(k, "simulate") /\ ZeroWeights(k)) =>
            \A train \in TrainsOf(ret[k].spike_trains_l) : train = <<>>

\* C3: with zero weights every output train is empty, and the train of a
\* hidden neuron is empty exactly when none of the samples of its row is
\* below the escape rate at potential zero times dt.
C3_ZeroWeights ==
    \A k \in 1 .. 2 :
        (Returned(k, "simulate") /\ ZeroWeights(k)) =>
            \A l \in DOMAIN ret[k].spike_trains_l :
                \A i \in DOMAIN ret[k].spike_trains_l[l] :
                    LET train == ret[k].spike_trains_l[l][i]
                        samples == UniformBatch(seed, BatchStart(0, l, LutLen),
                                                sizes[l + 1], LutLen)
                    IN IF l = num_layers - 2 THEN train = <<>>
                       ELSE (train = <<>>) <=>
                            (\A t \in Idx(LutLen) : ~(samples[i][t] < RateDt(0)))

\* a zero-weight network has returned with one hidden neuron that fired
\* and one that did not
C3_Witness ==
    \E k \in 1 .. 2 :
        /\ Returned(k, "simulate") /\ ZeroWeights(k)
        /\ \E i, j \in DOMAIN ret[k].spike_trains_l[0] :
               /\ ret[k].spike_trains_l[0][i] # <<>>
               /\ ret[k].spike_trains_l[0][j] = <<>>

\* network 1 is plain and network 2 has one subconnection per layer, of
\* delay 0, and both have been called with the same arguments
DelayZeroPair ==
    /\ net[1].cls = "plain" /\ net[2].cls = "sub"
    /\ \A l \in DOMAIN net[2].delays :
           Size(net[2].delays[l]) = 1 /\ net[2].delays[l][0] = 0
    /\ Returned(1, "simulate")
    /\ ret[2].status # "none"
    /\ ret[1].latency = ret[2].latency

\* C5 as stated: the subconnection network with a single subconnection of
\* delay 0 simulates, and returns the trains of the plain network.
C5_DelayZeroEqualsPlain ==
    DelayZeroPair =>
        /\ ret[2].status = "returned"
        /\ ret[2].spike_trains_l = ret[1].spike_trains_l

\* C7: in simulate every kernel addition of a spike at fire_idx starts at
\* fire_idx (refractory kernel, plain PSP kernel) or at fire_idx + delay
\* (one per subconnection), ends at num_iter and uses a kernel prefix of
\* just that length; a subconnection whose delayed onset is at or past
\* num_iter adds nothing; an input subconnection whose delay is the pattern
\* length or more leaves its input trace zero; and no network whose delays
\* are all at least one step fails with a shape error.
C7_KernelWindows ==
    /\ InSimulate =>
           \A a \in call.adds :
               /\ IF a.sub < 0 THEN a.onset = call.fire_idx
                  ELSE \E l \in DOMAIN net[call.k].delays :
                           /\ l >= 1
                           /\ a.sub \in DOMAIN net[call.k].delays[l]
                           /\ a.onset = call.fire_idx + net[call.k].delays[l][a.sub]
               /\ IF a.onset < call.num_iter
                  THEN /\ a.lo = a.onset
                       /\ a.hi = call.num_iter
                       /\ a.klen = call.num_iter - a.onset
                  ELSE a.lo = a.hi /\ a.klen = 0
    /\ (call.pc = "layer" /\ call.l = 0 /\ net[call.k].cls = "sub") =>
           \A j \in DOMAIN call.psps : \A i \in DOMAIN call.psps[j] :
               net[call.k].delays[0][i] >= call.num_iter =>
                   call.psps[j][i] = Zeros(call.num_iter)
    /\ \A k \in 1 .. 2 :
           (ret[k].status = "raised" /\ ret[k].exc = "ValueError") =>
               \E l \in DOMAIN net[k].delays : \E i \in DOMAIN net[k].delays[l] :
                   net[k].delays[l][i] < 1

\* a hidden spike of the subconnection network with one subconnection
\* whose kernel is cut short by its delay and one whose onset is past the
\* pattern
C7_Witness ==
    /\ call.pc = "hidden"
    /\ net[call.k].cls = "sub"
    /\ \E a, b \in call.adds :
           /\ a.sub >= 0 /\ a.onset > call.fire_idx /\ a.onset < call.num_iter
           /\ b.sub >= 0 /\ b.onset >= call.num_iter

\* (neurons x T) summed over the first l hidden layers
HiddenSamples(l, T) == SumTo([h \in Idx(l) |-> sizes[h + 1] * T], l)

\* samples one call of simulate draws in all
SimulateDraws == HiddenSamples(num_layers - 2, LutLen)

---------------------------------------------------------------------------
(* Properties of the fixed-step engine, checked under SpecSteps            *)

InSteps == call.pc = "steps"

\* C9 as stated: in simulate_steps of either network the sample compared
\* at step t is drawn at step t, after every sample compared at an
\* earlier step.
C9_DrawnStepByStep ==
    InSteps =>
        \A a, b \in call.smpls :
            /\ a.at = a.t
            /\ a.t < b.t => a.pos < b.pos

\* C9: simulate_steps of the subconnection network draws at each step one
\* sample per hidden neuron, after the samples of the steps before;
\* simulate_steps of the plain network has drawn, before its first step,
\* one batch per hidden layer in which the samples of a neuron follow one
\* another.
C9_DrawOrder ==
    InSteps =>
        IF net[call.k].cls = "sub"
        THEN /\ \A a, b \in call.smpls :
                    /\ a.at = a.t
                    /\ a.t < b.t => a.pos < b.pos
             /\ \A t \in Idx(call.t_step) : \A l \in Idx(num_layers - 2) :
                    \A i \in Idx(sizes[l + 1]) :
                        \E a \in call.smpls : a.t = t /\ a.l = l /\ a.i = i
             /\ rng[call.k] = Cardinality(call.smpls)
        ELSE /\ \A a \in call.smpls :
                    /\ a.at < 0
                    /\ a.pos = HiddenSamples(a.l, call.num_iter)
                                   + a.i * call.num_iter + a.t
             /\ rng[call.k] = HiddenSamples(num_layers - 2, call.num_iter)

\* the subconnection network is past its second step
C9_Witness ==
    /\ InSteps
    /\ net[call.k].cls = "sub"
    /\ call.t_step >= 2
    /\ \E a, b \in call.smpls : a.t = 0 /\ b.t = 1 /\ a.i > b.i

---------------------------------------------------------------------------
(* Properties of both engines, checked under SpecBoth                      *)

StimulusLen == Size(stimulus[0])

\* C6 as stated, for the entry points of the plain network: a call returns
\* when the stimulus has as many steps as the lookup table, and fails its
\* precondition when it has more or fewer, before any step is simulated.
C6_EveryEntryPointChecks ==
    /\ \A k \in 1 .. 2 :
           (ret[k].status # "none" /\ net[k].cls = "plain") =>
               IF StimulusLen = LutLen THEN ret[k].status = "returned"
               ELSE ret[k].status = "raised" /\ ret[k].exc = "AssertionError"
    /\ (call.pc # "idle" /\ net[call.k].cls = "plain") => StimulusLen = LutLen

\* C6: the iterative simulate of either network fails its precondition
\* exactly when the step count of the stimulus differs from the length of
\* the lookup table, and then nothing of the call was run; simulate_steps
\* of the plain network makes no such check and returns for a stimulus of
\* any length, with spikes inside its steps.
C6_LengthCheck ==
    /\ \A k \in 1 .. 2 :
           (ret[k].status # "none" /\ ret[k].engine = "simulate") =>
               ((ret[k].status = "raised" /\ ret[k].exc = "AssertionError")
                    <=> StimulusLen # LutLen)
    /\ InSimulate => StimulusLen = LutLen
    /\ \A k \in 1 .. 2 :
           (ret[k].status # "none" /\ ret[k].engine = "simulate_steps"
                /\ net[k].cls = "plain") =>
               /\ ret[k].status = "returned"
               /\ \A train \in TrainsOf(ret[k].spike_trains_l) :
                      \A s \in 1 .. Len(train) : train[s] < StimulusLen * dt

\* simulate has failed on a stimulus that is too long and on one that is
\* too short
C6_Witness ==
    /\ ret[1].status = "raised" /\ ret[1].engine = "simulate"
    /\ ret[2].status = "raised"
    /\ StimulusLen # LutLen

---------------------------------------------------------------------------
(* Properties of weight assignment, checked under SpecWeights              *)

\* entry (l, i, j, d) of the weights of network k is a hidden-layer entry
\* the clamp mask marks
Masked(k, l, i, j, d) ==
    /\ net[k].has_clamp_mask
    /\ l < num_layers - 2
    /\ net[k].clamp_mask[l][i][j][d]

\* C4: in the subconnection network the hidden weight entries the clamp
\* mask marks are 0 after construction and after every set_weights, the
\* one _init_weights makes included, and every other entry, of a hidden
\* or of the output layer, has the value handed to set_weights.
C4_ClampedWeights ==
    \A k \in 1 .. 2 :
        \A l \in DOMAIN net[k].w : \A i \in DOMAIN net[k].w[l] :
            \A j \in DOMAIN net[k].w[l][i] : \A d \in DOMAIN net[k].w[l][i][j] :
                IF Masked(k, l, i, j, d) THEN net[k].w[l][i][j][d] = 0
                ELSE ret[k].status = "returned" =>
                         net[k].w[l][i][j][d] = ret[k].weights[l][i][j][d]

\* _init_weights has handed set_weights a list whose masked entries are
\* not 0, and set_weights(W) has done so on the network without a mask
C4_Witness ==
    /\ ret[1].status = "returned" /\ ret[1].engine = "_init_weights"
    /\ \E l \in DOMAIN net[1].w : \E i \in DOMAIN net[1].w[l] :
           \E j \in DOMAIN net[1].w[l][i] : \E d \in DOMAIN net[1].w[l][i][j] :
               Masked(1, l, i, j, d) /\ ret[1].weights[l][i][j][d] # 0
    /\ ret[2].status = "returned" /\ ret[2].engine = "set_weights"

---------------------------------------------------------------------------
(* Properties of the learning windows, checked under SpecWindows           *)

\* a call of window has returned its traces, reduced or not
WindowReturned(k, window, reduce) ==
    /\ ret[k].status = "returned"
    /\ ret[k].engine = window
    /\ ret[k].args.reduce = reduce

\* the spike times of a train
TimesOf(train) == {train[m] : m \in DOMAIN train}

\* the lag at which the exponential window has the value v
LagOf(v) == CHOOSE lag \in 0 .. LutLen : ExpTrace(lag) = v

\* C11 as stated: in both windows a trace value that is not 0 comes from a
\* pre-spike strictly before the post-spike; a pre-spike at the time of
\* the post-spike contributes nothing.
C11_StrictlyCausal ==
    /\ WindowReturned(1, "EXPWindow", FALSE) =>
           \A n \in DOMAIN ret[1].traces :
               \/ ret[1].traces[n][1] = 0
               \/ \E p \in TimesOf(ret[1].args.pre_spikes) :
                      /\ p < ret[1].args.post_spikes[n]
                      /\ ret[1].traces[n][1] =
                             ExpTrace(ret[1].args.post_spikes[n] - p)
    /\ (WindowReturned(2, "PSPWindow", FALSE) /\ ~ret[2].args.has_delays) =>
           \A n \in DOMAIN ret[2].traces : \A m \in DOMAIN ret[2].traces[n] :
               ret[2].traces[n][m] # 0 =>
                   ret[2].args.pre_spikes[m] < ret[2].args.post_spikes[n]

\* v(n): the trace of post-spike n in the traces EXPWindow.causal returned
ExpValue(n) == ret[1].traces[n][1]

\* the pre-spike time the trace of post-spike n was computed from
DeterminedBy(n) == ret[1].args.post_spikes[n] - LagOf(ExpValue(n))

\* C12: in the traces EXPWindow.causal returns for increasing post-spikes,
\* a trace that is not 0 is the window at the lag to one of the
\* pre-spikes; for two post-spikes with such traces the pre-spike of the
\* later one is after the earlier post-spike, and so after the pre-spike
\* of the earlier one; and a post-spike with no pre-spike newer than the
\* one an earlier post-spike took has trace 0.
C12_ConsumedOnce ==
    WindowReturned(1, "EXPWindow", FALSE) =>
        LET post == ret[1].args.post_spikes
            pre == TimesOf(ret[1].args.pre_spikes)
        IN /\ \A n \in DOMAIN post :
                  ExpValue(n) # 0 =>
                      /\ ExpValue(n) \in {ExpTrace(lag) : lag \in 0 .. LutLen}
                      /\ DeterminedBy(n) \in pre
           /\ \A a, b \in DOMAIN post :
                  (a < b /\ ExpValue(a) # 0) =>
                      /\ ExpValue(b) # 0 =>
                             /\ DeterminedBy(b) > post[a]
                             /\ DeterminedBy(b) > DeterminedBy(a)
                      /\ (~\E p \in pre : DeterminedBy(a) < p /\ p <= post[b])
                             => ExpValue(b) = 0

\* two post-spikes were paired, each with its own pre-spike, and a third
\* found no newer pre-spike
C12_Witness ==
    /\ WindowReturned(1, "EXPWindow", FALSE)
    /\ \E a, b, c \in DOMAIN ret[1].traces :
           /\ a < b /\ b < c
           /\ ExpValue(a) # 0 /\ ExpValue(b) # 0 /\ ExpValue(c) = 0
           /\ \E p \in TimesOf(ret[1].args.pre_spikes) :
                  p <= ret[1].args.post_spikes[c]

\* the pre-spikes post-spike n can take: not after it, and after the
\* post-spike before it
Available(n) ==
    {p \in TimesOf(ret[1].args.pre_spikes) :
         /\ p <= ret[1].args.post_spikes[n]
         /\ n = 1 \/ p > ret[1].args.post_spikes[n - 1]}

\* the latest time of a set of times
Latest(times) == CHOOSE p \in times : \A q \in times : q <= p

PspAt(lag) == IF lag > 0 THEN PspTrace(lag) ELSE 0

\* C14: PSPWindow.causal returns for every post-spike and pre-spike (and
\* subconnection, with lag = t_post - (t_pre + delay)) the PSP kernel at
\* the lag when the lag is positive and 0 when it is not; the kernel at a
\* positive lag is not 0, so a pre-spike contributes to every later
\* post-spike; causal_reduce returns for every post-spike (and
\* subconnection) the sum over all pre-spikes.
C14_PspTraces ==
    \A reduce \in BOOLEAN :
        WindowReturned(2, "PSPWindow", reduce) =>
            LET post == ret[2].args.post_spikes
                pre == ret[2].args.pre_spikes
                delays == ret[2].args.delays
                tr == ret[2].traces
                sum(n, d) == SumTo([m \in Idx(Len(pre)) |->
                                       PspAt(post[n] - (pre[m + 1] + d))],
                                   Len(pre))
            IN /\ Len(tr) = Len(post)
               /\ \A lag \in 1 .. LutLen : PspAt(lag) # 0
               /\ \A n \in DOMAIN post :
                      IF ret[2].args.has_delays
                      THEN /\ Len(tr[n]) = Size(delays)
                           /\ \A j \in DOMAIN tr[n] :
                                  IF reduce THEN tr[n][j] = sum(n, delays[j - 1])
                                  ELSE /\ Len(tr[n][j]) = Len(pre)
                                       /\ \A m \in DOMAIN pre :
                                              tr[n][j][m] =
                                                  PspAt(post[n] - (pre[m]
                                                            + delays[j - 1]))
                      ELSE IF reduce THEN tr[n] = sum(n, 0)
                      ELSE /\ Len(tr[n]) = Len(pre)
                           /\ \A m \in DOMAIN pre :
                                  tr[n][m] = PspAt(post[n] - pre[m])

\* causal_reduce with delays has returned, for one post-spike and
\* subconnection, the kernel of a pre-spike whose delayed lag is positive
\* and has left out a pre-spike whose delayed lag is not
C14_Witness ==
    /\ WindowReturned(2, "PSPWindow", TRUE)
    /\ ret[2].args.has_delays
    /\ \E n \in DOMAIN ret[2].args.post_spikes :
           \E j \in 1 .. Size(ret[2].args.delays) :
               \E m1, m2 \in DOMAIN ret[2].args.pre_spikes :
                   LET lag(m) == ret[2].args.post_spikes[n]
                                     - (ret[2].args.pre_spikes[m]
                                            + ret[2].args.delays[j - 1])
                   IN /\ lag(m1) > 0 /\ lag(m2) <= 0
                      /\ ret[2].traces[n][j] = PspTrace(lag(m1))
                      /\ ret[2].traces[n][j] # 0

\* C15 as stated: a call of the nearest-neighbour window with a delays
\* argument, made directly or through causal_reduce, ends in a
\* not-implemented error.
C15_DelaysRefused ==
    (ret[1].status # "none" /\ ret[1].engine = "EXPWindow"
         /\ ret[1].args.has_delays) =>
        ret[1].status = "raised" /\ ret[1].exc = "NotImplementedError"

---------------------------------------------------------------------------
(* Properties of the results of simulate, checked under SpecRecord         *)

\* C16 as stated: with debug set simulate returns the spike trains and a
\* record that has both keys 'psp' and 'u', whatever return_psps is; with
\* debug unset and return_psps set it returns the spike trains and the
\* PSP list; with both unset the spike trains alone.
C16_ReturnShapes ==
    \A k \in 1 .. 2 :
        Returned(k, "simulate") =>
            IF ret[k].debug
            THEN /\ ret[k].shape = "trains_rec"
                 /\ {"psp", "u"} \subseteq ret[k].rec.keys
            ELSE IF ret[k].return_psps
            THEN ret[k].shape = "trains_psps"
            ELSE ret[k].shape = "trains"

---------------------------------------------------------------------------
(* Properties of the spike-discovery loop, checked under Spec              *)

\* the layer whose neuron loop is running
LoopLayer == IF call.pc = "hidden" THEN call.l ELSE num_layers - 2

\* the spike train of the neuron whose loop is running
LoopTrain == call.spike_trains_l[LoopLayer][call.i]

\* the index of the spike accepted last by the running loop, -1 before the
\* first
PrevFireIdx ==
    IF LoopTrain = <<>> THEN 0 - 1 ELSE LoopTrain[Len(LoopTrain)] \div dt

\* the indices after the spike accepted last at which the firing condition
\* holds in the trace as it is
LaterCandidates == {thr_idxs[c] : c \in DOMAIN thr_idxs} \ (0 .. PrevFireIdx)

\* the loop of a neuron accepts a spike in this step
SpikeAccepted ==
    /\ call.pc \in {"hidden", "output"}
    /\ call'.pc # "idle"
    /\ call'.spike_trains_l[LoopLayer][call.i] # LoopTrain

\* C17 as stated: every index the loop of a hidden or output neuron
\* accepts is the earliest index after the spike accepted before it at
\* which the firing condition holds in the trace with the refractory
\* kernels of all spikes accepted so far; no such index is skipped.
C17_EarliestCandidate ==
    [][SpikeAccepted =>
           /\ LaterCandidates # {}
           /\ \A c \in LaterCandidates : call'.fire_idx <= c]_vars

\* the step stays in the loop of the same neuron
SameLoop ==
    /\ call'.pc = call.pc
    /\ call'.l = call.l
    /\ call'.i = call.i

\* the train of the neuron whose loop is running, after the step
LoopTrainAfter == call'.spike_trains_l[LoopLayer][call.i]

\* the step appends one spike to the train of the neuron
OneSpikeAppended ==
    /\ Len(LoopTrainAfter) = Len(LoopTrain) + 1
    /\ SubSeq(LoopTrainAfter, 1, Len(LoopTrain)) = LoopTrain

\* C18: in simulate every pass of the loop of a hidden or output neuron
\* either stays in the loop, and then there are more candidates than
\* num_spikes, one spike is appended to the train and num_spikes grows by
\* one, staying the length of the train and at most num_iter; or it leaves
\* the loop, because the candidates are no more than num_spikes, or, for
\* an output neuron under latency, with its first spike. So the loop of a
\* neuron ends after at most one pass more than the spikes it fired, and
\* a train has at most num_iter spikes.
C18_LoopBounded ==
    [][(call.pc \in {"hidden", "output"} /\ call'.pc # "idle") =>
           /\ Len(thr_idxs) <= call.num_iter
           /\ IF SameLoop
              THEN /\ call.num_spikes < Len(thr_idxs)
                   /\ OneSpikeAppended
                   /\ call'.num_spikes = call.num_spikes + 1
                   /\ call'.num_spikes = Len(LoopTrainAfter)
                   /\ call'.num_spikes <= call.num_iter
              ELSE \/ /\ Len(thr_idxs) <= call.num_spikes
                      /\ LoopTrainAfter = LoopTrain
                      /\ Len(LoopTrain) = call.num_spikes
                   \/ /\ call.pc = "output" /\ call.latency
                      /\ call.num_spikes = 0
                      /\ OneSpikeAppended]_vars

\* the loop of a neuron has fired at every step of the stimulus and is
\* about to be left
C18_Witness ==
    /\ call.pc \in {"hidden", "output"}
    /\ call.num_spikes = call.num_iter
    /\ Len(LoopTrain) = call.num_iter
    /\ Len(thr_idxs) <= call.num_spikes

---------------------------------------------------------------------------
(* Properties of the order of the neuron loops, checked under SpecOrder    *)

\* C19: when the loops of the neurons of every layer are run in any order
\* and interleaving, after the layer's samples are drawn, simulate returns
\* the same spike trains, the same PSPs of every layer and the same
\* potentials as when they are run neuron after neuron.
C19_AnyOrderSameResult ==
    (Returned(1, "simulate") /\ Returned(2, "simulate")) =>
        /\ ret[2].spike_trains_l = ret[1].spike_trains_l
        /\ ret[2].rec.psp = ret[1].rec.psp
        /\ ret[2].rec.u = ret[1].rec.u

\* the run in any order is about to return: the loop of output neuron 1
\* was left before the loop of output neuron 0, both output neurons and a
\* hidden neuron have fired, and the trains are those of the run neuron
\* after neuron
C19_Witness ==
    /\ Returned(1, "simulate")
    /\ call.pc = "return"
    /\ call.k = 2
    /\ call.done = <<1, 0>>
    /\ \A i \in Idx(sizes[num_layers - 1]) :
           call.spike_trains_l[num_layers - 2][i] # <<>>
    /\ call.spike_trains_l[0][0] # <<>>
    /\ call.spike_trains_l = ret[1].spike_trains_l

---------------------------------------------------------------------------
(* Properties of the delays of the subconnection network, checked under    *)
(* Spec                                                                    *)

\* the subconnection network is in its first layer with the input PSPs
\* expanded
InputsShifted ==
    /\ call.pc = "layer"
    /\ call.l = 0
    /\ net[call.k].cls = "sub"

\* C20: in simulate of the subconnection network the input PSP on
\* subconnection j at step t is the input PSP at step t - delay_j, and 0
\* for t < delay_j; and a spike a hidden neuron accepts at fire_idx adds
\* to subconnection j of the neuron's outgoing trace the PSP kernel from
\* step fire_idx + delay_j on and leaves every earlier step as it was.
C20_DelayedBySteps ==
    [][/\ InputsShifted =>
              \A n \in DOMAIN call.psps : \A j \in DOMAIN call.psps[n] :
                  \A t \in Idx(call.num_iter) :
                      call.psps[n][j][t] =
                          IF t < net[call.k].delays[0][j] THEN 0
                          ELSE stimulus_as_psps(stimulus)[n]
                                   [t - net[call.k].delays[0][j]]
       /\ (SpikeAccepted /\ call.pc = "hidden" /\ net[call.k].cls = "sub") =>
              \A j \in DOMAIN call.psps[call.i] :
                  \A t \in Idx(call.num_iter) :
                      LET onset == call'.fire_idx
                                       + net[call.k].delays[call.l + 1][j]
                      IN call'.psps[call.i][j][t] =
                             call.psps[call.i][j][t]
                                 + (IF t >= onset THEN lut_psp[t - onset]
                                    ELSE 0)]_vars

\* a hidden neuron of the subconnection network, whose input set in at the
\* first step and was delayed, has accepted its first spike, and the
\* kernel is on a subconnection from the delayed step on and not before
C20_Witness ==
    /\ call.pc = "hidden"
    /\ net[call.k].cls = "sub"
    /\ call.num_spikes = 1
    /\ stimulus[0][0] # 0
    /\ \E j \in DOMAIN call.psps[call.i] :
           LET onset == call.fire_idx + net[call.k].delays[call.l + 1][j]
           IN /\ net[call.k].delays[call.l + 1][j] >= 1
              /\ onset + 1 < call.num_iter
              /\ call.psps[call.i][j][onset] = 0
              /\ call.psps[call.i][j][onset + 1] = lut_psp[1]
              /\ lut_psp[1] # 0

---------------------------------------------------------------------------
(* Properties of the history of the fixed-step engine, checked under       *)
(* SpecSteps                                                               *)

\* the subconnection network is about to run a time step
SubStepAhead ==
    /\ call.pc = "steps"
    /\ net[call.k].cls = "sub"
    /\ call.t_step < call.num_iter

\* C21 as stated: in simulate_steps of the subconnection network, with
\* delays as the constructor makes them under 'lin' or 'unif', no index
\* into the padded input or the history buffer is out of range, and the
\* input read at step t for a subconnection with delay d is the input PSP
\* of step t - d when t >= d and 0 when t < d.
C21_DelaysCovered ==
    /\ \A k \in 1 .. 2 :
           ~(/\ ret[k].status = "raised"
             /\ ret[k].engine = "simulate_steps"
             /\ ret[k].exc = "IndexError")
    /\ SubStepAhead =>
           \A j \in DOMAIN call.psp_inputs :
               \A s \in DOMAIN net[call.k].delays[0] :
                   LET d == net[call.k].delays[0][s]
                       t == call.t_step
                       padded == Size(call.psp_inputs[j])
                   IN /\ PyIndexOk(t - d, padded)
                      /\ call.psp_inputs[j][PyIndex(t - d, padded)] =
                             IF t >= d THEN stimulus_as_psps(stimulus)[j][t - d]
                             ELSE 0

---------------------------------------------------------------------------
(* Properties of the two engines without a hidden layer, checked under     *)
(* SpecDirect                                                              *)

\* C22 as stated: for a network without a hidden layer, of the same
\* weights and the same input PSPs, simulate with latency unset and
\* simulate_steps return the same output spike trains.
C22_EnginesAgree ==
    \A k1, k2 \in 1 .. 2 :
        (Returned(k1, "simulate") /\ Returned(k2, "simulate_steps")) =>
            \A i \in Idx(sizes[num_layers - 1]) :
                /\ Len(ret[k1].spike_trains_l[0][i]) =
                       Len(ret[k2].spike_trains_l[0][i])
                /\ \A n \in 1 .. Len(ret[k1].spike_trains_l[0][i]) :
                       ret[k1].spike_trains_l[0][i][n] =
                           ret[k2].spike_trains_l[0][i][n]

---------------------------------------------------------------------------
(* Properties of what a call leaves behind, checked under SpecBoth         *)

\* the step is a call that fails its assert on the pattern length
FailsPrecondition(k) ==
    /\ ret[k].status = "none"
    /\ ret'[k].status = "raised"
    /\ ret'[k].exc = "AssertionError"

\* a call on the network of generator g is running before or after the
\* step
CallOn(g) ==
    \/ call.pc # "idle" /\ Generator(call.k) = g
    \/ call'.pc # "idle" /\ Generator(call'.k) = g

\* C23: no step of a call of simulate or simulate_steps changes the
\* weights, the delays or the clamp mask of a network, the lookup tables,
\* the layer sizes or the stimulus of the caller; the state of a generator
\* changes only in a call on its network; and a call that fails the
\* assert on the pattern length leaves the generators as they were.
C23_FrameOfCalls ==
    [][/\ net' = net
       /\ stimulus' = stimulus
       /\ sizes' = sizes
       /\ lut_refr(kappa_0') = lut_refr(kappa_0)
       /\ \A g \in DOMAIN rng : rng'[g] # rng[g] => CallOn(g)
       /\ \A k \in 1 .. 2 : FailsPrecondition(k) => rng' = rng]_vars

\* the plain network was given the caller's array as its PSPs, has drawn
\* its samples, has fired in a hidden and in the output layer, writing
\* kernels in place, and has returned
C23_Witness ==
    /\ Returned(1, "simulate")
    /\ net[1].cls = "plain"
    /\ rng[Generator(1)] = SimulateDraws
    /\ SimulateDraws > 0
    /\ ret[1].spike_trains_l[0][0] # <<>>
    /\ ret[1].spike_trains_l[num_layers - 2][0] # <<>>

====
